---- MODULE Spec2Model ----
(***************************************************************************)
(* Marketing-attribution pipeline: the conversion-capture edge function    *)
(* (supabase/functions/capture-conversion/index.ts), its attribution       *)
(* calculator, the event-capture function that feeds the event store, and  *)
(* the tables both write to.                                               *)
(*                                                                         *)
(* Numbers: weights are exact rationals <<num, den>> (the code computes in *)
(* doubles; the claims are stated "within tolerance").  Time is counted in *)
(* whole days.  An absent optional value is the falsy value of its type    *)
(* (0, "", <<0, 0>>), which is what the code's `x || default` tests.       *)
(***************************************************************************)
EXTENDS Integers, Sequences, FiniteSets, TLC

\* ------------------------------------------------------------------ bounds
MaxTime == 2            \* timestamps are days 0..MaxTime
MaxEvents == 2          \* rows of the events table
MaxLen == 4             \* longest touchpoint sequence given to the calculator
MaxCalcTime == 3        \* timestamps of calculator inputs are 0..MaxCalcTime

Times == 0..MaxTime
Visitors == {"v1", "v2"}
Sources == {"", "google"}           \* "" is an absent utm_source
CapturedSources == {"google"}       \* utm_source of the events captured
\* the email hash a visitor's tracker sends with its events: v2 has
\* identified itself, v1 has not
IdentifiedAs(v) == IF v = "v2" THEN "h1" ELSE ""
EmailHashes == {"", "h1"}           \* "" is an absent email_hash
\* click_ids of an event: one value per click identifier, "" when absent
\* (a null click_ids column is the record with no identifier present)
ClickIdValues == [gclid |-> "g1", fbclid |-> "f1", ttclid |-> "t1", msclkid |-> "m1"]
ClickIdNames == DOMAIN ClickIdValues
NoClickIds == [k \in ClickIdNames |-> ""]
ClickIds ==
  {[k \in ClickIdNames |-> IF k \in present THEN ClickIdValues[k] ELSE ""] :
     present \in SUBSET ClickIdNames}
CapturedClickIds == {[NoClickIds EXCEPT !.gclid = "g1"]}   \* of the events captured
Values == {-1, 100}                 \* -1 is an absent conversion value
NoValue == -1
NullId == 0                         \* a NULL uuid column
NullVisitor == ""                   \* an undefined / NULL visitor_id
InvalidDate == -1                   \* a timestamp string that is no date

\* --------------------------------------------------------------- rationals
RECURSIVE GCD(_, _)
GCD(a, b) == IF b = 0 THEN a ELSE GCD(b, a % b)

Abs(x) == IF x < 0 THEN -x ELSE x

Rat(n, d) ==
  LET g == GCD(Abs(n), Abs(d)) IN
  IF g = 0 THEN <<0, 0>> ELSE <<n \div g, d \div g>>

ZERO == <<0, 1>>
ONE == <<1, 1>>
UNSET == <<0, 0>>                   \* an absent optional number
NaN == <<1, 0>>                     \* the result of arithmetic on an invalid date

RatAdd(a, b) ==
  LET g == GCD(a[2], b[2])
      l == (a[2] \div g) * b[2]
  IN Rat(a[1] * (l \div a[2]) + b[1] * (l \div b[2]), l)

RatMul(a, b) == Rat(a[1] * b[1], a[2] * b[2])

RatDiv(a, b) == Rat(a[1] * b[2], a[2] * b[1])

RatEq(a, b) == a[1] * b[2] = b[1] * a[2]

RatLeq(a, b) == a[1] * b[2] <= b[1] * a[2]

\* JavaScript truthiness of a number: 0, NaN and undefined are falsy
Truthy(r) == r[1] # 0 /\ r[2] # 0

RECURSIVE IntPow(_, _)
IntPow(b, e) == IF e = 0 THEN 1 ELSE b * IntPow(b, e - 1)

\* Math.pow(base, days) for a whole number of days
Pow(base, days) ==
  IF days >= 0 THEN Rat(IntPow(base[1], days), IntPow(base[2], days))
  ELSE Rat(IntPow(base[2], -days), IntPow(base[1], -days))

RECURSIVE RatSum(_, _)
\* sum of f[i] for i in 1..n
RatSum(f, n) == IF n = 0 THEN ZERO ELSE RatAdd(RatSum(f, n - 1), f[n])

\* ------------------------------------------------------- model settings
DefaultDecayBase == <<7, 10>>       \* settings.decay_base || 0.7
DefaultLookbackDays == 30           \* lookback_window_days || 30
DefaultModelName == "last_touch"    \* modelSettings?.name || "last_touch"

KnownModels == {"first_touch", "last_touch", "linear", "time_decay",
                "position_based", "custom"}
ModelNames == KnownModels \cup {"u_shaped"}

CustomWeights == [s \in {"google"} |-> <<1, 2>>]
NoCustomWeights == [s \in {} |-> ZERO]

\* settings as the model form saves them (AttributionModelManager.onSubmit):
\* decay_base only for time_decay, the three position weights only for
\* position_based
SettingsOf(name, lookback, decay) ==
  [lookback_window_days |-> lookback,
   decay_base |-> IF name = "time_decay" THEN decay ELSE UNSET,
   first_touch_weight |-> IF name = "position_based" THEN <<2, 5>> ELSE UNSET,
   last_touch_weight |-> IF name = "position_based" THEN <<2, 5>> ELSE UNSET,
   middle_touch_weight |-> IF name = "position_based" THEN <<1, 5>> ELSE UNSET,
   custom_weights |-> IF name = "custom" THEN CustomWeights ELSE NoCustomWeights]

DefaultSettings == SettingsOf("", DefaultLookbackDays, UNSET)

DecayBases == {UNSET, <<1, 2>>, <<1, 1>>}
Lookbacks == {0, 1}                 \* 0 is an absent lookback_window_days

\* the rows of attribution_models tried: every model name with no lookback
\* setting, time_decay with every decay base, last_touch with every lookback
ModelRows ==
  {[name |-> n, settings |-> SettingsOf(n, 0, d)] :
     n \in ModelNames, d \in DecayBases}
  \cup {[name |-> "last_touch", settings |-> SettingsOf("last_touch", l, UNSET)] :
          l \in Lookbacks}

\* position_based rows with other weights than the form's defaults
PositionWeights ==
  {<<<<1, 2>>, <<1, 2>>, UNSET>>, <<<<1, 5>>, <<3, 5>>, <<1, 5>>>>,
   <<UNSET, UNSET, UNSET>>}

PositionRows ==
  {[name |-> "position_based",
    settings |-> [SettingsOf("position_based", 0, UNSET) EXCEPT
                    !.first_touch_weight = w[1],
                    !.last_touch_weight = w[2],
                    !.middle_touch_weight = w[3]]] : w \in PositionWeights}

\* ------------------------------------------------------------ calculator
EmptyWeights == [id \in {} |-> ZERO]

Ids(touchpoints) == {touchpoints[i].id : i \in 1..Len(touchpoints)}

\* weights[tp.id] = w inside forEach: the last touchpoint with an id wins
LastIndexOf(touchpoints, id) ==
  CHOOSE i \in 1..Len(touchpoints) :
    /\ touchpoints[i].id = id
    /\ \A j \in 1..Len(touchpoints) : touchpoints[j].id = id => j <= i

TimeDecayNoNormalize(touchpoints, settings) ==
  LET n == Len(touchpoints)
      decayBase == IF Truthy(settings.decay_base)
                   THEN settings.decay_base ELSE DefaultDecayBase
      lastTs == touchpoints[n].timestamp
      raw == [i \in 1..n |-> Pow(decayBase, lastTs - touchpoints[i].timestamp)]
  IN [id \in Ids(touchpoints) |-> raw[LastIndexOf(touchpoints, id)]]

TimeDecayTotalFromOne(touchpoints, settings) ==
  LET n == Len(touchpoints)
      decayBase == IF Truthy(settings.decay_base)
                   THEN settings.decay_base ELSE DefaultDecayBase
      lastTs == touchpoints[n].timestamp
      raw == [i \in 1..n |-> Pow(decayBase, lastTs - touchpoints[i].timestamp)]
      totalWeight == RatAdd(ONE, RatSum(raw, n))
  IN [id \in Ids(touchpoints) |->
        RatDiv(raw[LastIndexOf(touchpoints, id)], totalWeight)]

TimeDecayFromFirst(touchpoints, settings) ==
  LET n == Len(touchpoints)
      decayBase == IF Truthy(settings.decay_base)
                   THEN settings.decay_base ELSE DefaultDecayBase
      firstTs == touchpoints[1].timestamp
      raw == [i \in 1..n |-> Pow(decayBase, touchpoints[i].timestamp - firstTs)]
      totalWeight == RatSum(raw, n)
  IN [id \in Ids(touchpoints) |->
        RatDiv(raw[LastIndexOf(touchpoints, id)], totalWeight)]

\* new Date(s).getTime() is NaN for a string that is no date; the difference
\* of the times, the power, the sum and the quotient are then NaN as well
TimeDecay(touchpoints, settings) ==
  LET n == Len(touchpoints)
      decayBase == IF Truthy(settings.decay_base)
                   THEN settings.decay_base ELSE DefaultDecayBase
      lastTs == touchpoints[n].timestamp
      raw == [i \in 1..n |->
                IF lastTs = InvalidDate \/ touchpoints[i].timestamp = InvalidDate
                THEN NaN
                ELSE Pow(decayBase, lastTs - touchpoints[i].timestamp)]
      totalWeight == IF \E i \in 1..n : raw[i] = NaN THEN NaN
                     ELSE RatSum(raw, n)
  IN [id \in Ids(touchpoints) |->
        IF totalWeight = NaN THEN NaN
        ELSE RatDiv(raw[LastIndexOf(touchpoints, id)], totalWeight)]

FirstTouchAsLast(touchpoints) ==
  [id \in {touchpoints[Len(touchpoints)].id} |-> ONE]

FirstTouch(touchpoints) == [id \in {touchpoints[1].id} |-> ONE]

LastTouchAsFirst(touchpoints) == [id \in {touchpoints[1].id} |-> ONE]

LastTouch(touchpoints) == [id \in {touchpoints[Len(touchpoints)].id} |-> ONE]

LinearOffByOne(touchpoints) ==
  [id \in Ids(touchpoints) |-> Rat(1, Len(touchpoints) + 1)]

Linear(touchpoints) ==
  [id \in Ids(touchpoints) |-> Rat(1, Len(touchpoints))]

calculateAttributionNoCollapse(touchpoints, modelType, settings) ==
  IF Len(touchpoints) = 0 THEN EmptyWeights
  ELSE CASE modelType = "first_touch" -> FirstTouch(touchpoints)
         [] modelType = "last_touch" -> LastTouch(touchpoints)
         [] modelType = "linear" -> Linear(touchpoints)
         [] modelType = "time_decay" -> TimeDecay(touchpoints, settings)
         [] modelType = "position_based" ->
              [id \in Ids(touchpoints) |->
                 LET i == LastIndexOf(touchpoints, id) IN
                 IF i = Len(touchpoints) THEN settings.last_touch_weight
                 ELSE IF i = 1 THEN settings.first_touch_weight
                 ELSE RatDiv(settings.middle_touch_weight,
                             <<Len(touchpoints) - 2, 1>>)]
         [] OTHER -> LastTouch(touchpoints)

calculateAttribution(touchpoints, modelType, settings) ==
  IF Len(touchpoints) = 0 THEN EmptyWeights
  ELSE CASE modelType = "first_touch" -> FirstTouch(touchpoints)
         [] modelType = "last_touch" -> LastTouch(touchpoints)
         [] modelType = "linear" -> Linear(touchpoints)
         [] modelType = "time_decay" -> TimeDecay(touchpoints, settings)
         [] OTHER -> LastTouch(touchpoints)

\* weights[id] || 0
WeightOf(weights, id) ==
  IF id \in DOMAIN weights /\ weights[id] # NaN THEN weights[id] ELSE ZERO

\* ------------------------------------------------------------------ state
VARIABLES
  events,               \* table events: set of rows
  visitors,             \* table visitors: the visitor_id primary keys
  identity_map,         \* table identity_map: email_hash -> visitor_ids array
  attribution_models,   \* table attribution_models: the client's active rows
  conversions,          \* table conversions: sequence of rows, id = position
  attribution_results,  \* table attribution_results: set of rows
  run,                  \* the conversion-capture request in flight
  calc,                 \* one call of calculateAttribution: arguments, result
  form,                 \* the model form of AttributionModelManager
  tracker,              \* the browser tracker: instance fields, storage, requests sent
  capture               \* the event-capture request in flight

vars == <<events, visitors, identity_map, attribution_models, conversions,
          attribution_results, run, calc, form, tracker, capture>>

\* --------------------------------------------------------------- helpers
VisitorSeq == <<"v1", "v2">>
SourceSeq == <<"google", "">>
HashSeq == <<"", "h1">>

IndexIn(seq, x) == CHOOSE i \in 1..Len(seq) : seq[i] = x

\* events.id (uuid DEFAULT gen_random_uuid()): a value no other row has; here
\* a number fixed by the row's content, so two rows of equal content would
\* collide and CaptureEvent does not insert a second one
EventId(v, ts, src, h) ==
  1 + ts + (MaxTime + 1) * ((IndexIn(VisitorSeq, v) - 1)
        + 2 * ((IndexIn(SourceSeq, src) - 1) + 2 * (IndexIn(HashSeq, h) - 1)))

\* row.col in JavaScript: undefined when the row has no such property
Field(row, col) == IF col \in DOMAIN row THEN row[col] ELSE NullVisitor

\* .select("a, b, c"): the row restricted to the selected columns
Select(row, cols) == [c \in cols |-> row[c]]

\* .single(): the row when exactly one matches, else data = null
IsSingle(rows) == Cardinality(rows) = 1
Single(rows) == CHOOSE r \in rows : TRUE

SeqRange(s) == {s[i] : i \in 1..Len(s)}

\* every ordering of a set of rows that .order("timestamp", ascending) may
\* return: rows of equal timestamp come in any order
OrderedByTimestamp(rows) ==
  {s \in [1..Cardinality(rows) -> rows] :
     /\ \A i, j \in 1..Cardinality(rows) : i # j => s[i] # s[j]
     /\ \A i, j \in 1..Cardinality(rows) :
          i < j => s[i].timestamp <= s[j].timestamp}

NoResponse == [status |-> 0, success |-> FALSE, error |-> "",
               attribution |-> "", conversion_id |-> 0,
               attribution_count |-> 0, total_credit |-> 0, model |-> ""]

NoPayload == [visitor_id |-> "", timestamp |-> 0, value |-> NoValue,
              email_hash |-> ""]

IdleRun == [pc |-> "idle", request |-> 1, payload |-> NoPayload,
            conversion_id |-> 0,
            modelName |-> "", settings |-> DefaultSettings,
            lookbackDate |-> 0, visitorIds |-> <<>>, touchpoints |-> <<>>,
            formattedTouchpoints |-> <<>>,
            weights |-> EmptyWeights, rows |-> {}, sinkUp |-> FALSE,
            response |-> NoResponse]

\* no call of calculateAttribution
NoCalc == [pc |-> "none"]

\* a call of calculateAttribution with its arguments
CalcCall(touchpoints, modelType, settings) ==
  [pc |-> "call", touchpoints |-> touchpoints, modelType |-> modelType,
   settings |-> settings, formattedTouchpoints |-> <<>>,
   weights |-> EmptyWeights]

\* the form is not open
NoForm == [pc |-> "closed"]

\* keys of localStorage and of the cookies, without the prefix
CONSENT_KEY == "consent_given"
VISITOR_ID_KEY == "visitor_id"
UTM_KEY == "utm"
StorageKeys == {CONSENT_KEY, VISITOR_ID_KEY, UTM_KEY}

\* "" under a key: getItem and Cookies.get give nothing
EmptyStorage == [k \in StorageKeys |-> ""]

\* no AttributionTracker instance yet: the browser's storage, and outbox,
\* the requests handed to sendBeacon / fetch that the endpoint has not
\* taken up yet
NoTracker == [pc |-> "unloaded", storage |-> EmptyStorage, outbox |-> <<>>]

\* the fields of a new AttributionTracker on a page
NewTracker(storage, outbox) ==
  [pc |-> "ready", hasConsent |-> FALSE, visitorId |-> "", utmSource |-> "",
   hashing |-> FALSE, storage |-> storage, outbox |-> outbox]

NoEventPayload == [client_id |-> "", visitor_id |-> "", event_type |-> "",
                   email_hash |-> "", utm_source |-> "", path |-> ""]

\* no request taken up yet
NoCapture == [pc |-> "idle"]

\* a request the endpoint has taken up
NewCapture(method, payload) ==
  [pc |-> "received", method |-> method, payload |-> payload,
   dbOk |-> FALSE, status |-> 0, error |-> ""]

\* ------------------------------------------------------ event capture
ValidEventTypes == {"pageview", "form_submit", "purchase", "conversion"}
EventTypes == {"pageview", "page_view"}

\* the clients table, and the client_id values a request can carry
Clients == {"c1"}
ClientIds == {"c1", "c0"}

\* timestamp and page_url are always present in this model; an email_hash
\* is always 64 hex digits
validatePayload(p) ==
  /\ p.client_id # ""
  /\ p.visitor_id # ""
  /\ p.event_type # ""
  /\ p.event_type \in ValidEventTypes

\* function update_identity_map of the initial schema: UPDATE the row of the
\* hash unless the visitor is in it; IF NOT FOUND THEN INSERT, which meets
\* the primary key email_hash when the row exists
update_identity_map_initial(map, new) ==
  IF new.email_hash = "" THEN [error |-> FALSE, map |-> map]
  ELSE IF /\ new.email_hash \in DOMAIN map
          /\ new.visitor_id \notin SeqRange(map[new.email_hash])
       THEN [error |-> FALSE,
             map |-> [map EXCEPT ![new.email_hash] = Append(@, new.visitor_id)]]
       ELSE IF new.email_hash \in DOMAIN map
            THEN [error |-> TRUE, map |-> map]
            ELSE [error |-> FALSE,
                  map |-> [h \in DOMAIN map \cup {new.email_hash} |->
                             IF h = new.email_hash THEN <<new.visitor_id>>
                             ELSE map[h]]]

\* trigger update_identity_map, AFTER INSERT ON events, as the migration
\* 20250426134404 replaces it: INSERT ... ON CONFLICT (email_hash) DO UPDATE
\* ... WHERE NOT visitor_ids @> ARRAY[NEW.visitor_id].  error: the trigger
\* raised and the insert of the event is undone
update_identity_map(map, new) ==
  IF new.email_hash = "" THEN [error |-> FALSE, map |-> map]
  ELSE IF new.email_hash \notin DOMAIN map
       THEN [error |-> FALSE,
             map |-> [h \in DOMAIN map \cup {new.email_hash} |->
                        IF h = new.email_hash THEN <<new.visitor_id>>
                        ELSE map[h]]]
       ELSE IF new.visitor_id \in SeqRange(map[new.email_hash])
            THEN [error |-> FALSE, map |-> map]
            ELSE [error |-> FALSE,
                  map |-> [map EXCEPT ![new.email_hash] =
                             Append(SelectSeq(@, LAMBDA x : x # new.visitor_id),
                                    new.visitor_id)]]

\* the event-capture function, one POST request of a known client, taken
\* as one step: validate the payload, upsert the visitor, insert the event
\* (the trigger runs with the insert).
\* payload.timestamp is read by the insert only, so it is drawn there
CaptureEvent ==
  /\ Cardinality(events) < MaxEvents
  /\ \E v \in Visitors, src \in CapturedSources, et \in EventTypes,
        clicks \in CapturedClickIds :
    LET h == IdentifiedAs(v)
        payload == [client_id |-> "c1", visitor_id |-> v, event_type |-> et,
                    utm_source |-> src, email_hash |-> h, click_ids |-> clicks]
    IN IF ~validatePayload(payload)
       THEN UNCHANGED <<events, visitors, identity_map>>
       ELSE \E visitorError \in BOOLEAN :
              IF visitorError
              THEN UNCHANGED <<events, visitors, identity_map>>
              ELSE /\ visitors' = visitors \cup {v}
                   /\ \E eventError \in BOOLEAN :
                        IF eventError
                        THEN UNCHANGED <<events, identity_map>>
                        ELSE \E ts \in Times :
                          LET eventRecord ==
                                [id |-> EventId(v, ts, src, h), visitor_id |-> v,
                                 event_type |-> et, utm_source |-> src,
                                 click_ids |-> payload.click_ids,
                                 email_hash |-> h, timestamp |-> ts]
                              trigger ==
                                update_identity_map(identity_map, eventRecord)
                          IN /\ eventRecord.id \notin {e.id : e \in events}
                             /\ events' = IF trigger.error THEN events
                                          ELSE events \cup {eventRecord}
                             /\ identity_map' = trigger.map
  /\ UNCHANGED <<attribution_models, conversions, attribution_results,
                 run, calc, form, tracker, capture>>

\* -------------------------------------------------- conversion capture
Respond(r, resp) == [r EXCEPT !.pc = "done", !.response = resp]

StoreConversionUnchecked ==
  /\ run.pc = "idle"
  /\ \E v \in Visitors, ts \in Times, val \in Values, h \in EmailHashes,
        dbOk \in BOOLEAN :
    LET payload == [visitor_id |-> v, timestamp |-> ts, value |-> val,
                    email_hash |-> h]
        conversion == [id |-> Len(conversions) + 1, visitor_id |-> v,
                       value |-> val, email_hash |-> h, timestamp |-> ts]
        conversionError == ~dbOk \/ v \notin visitors
    IN /\ conversions' = IF conversionError THEN conversions
                         ELSE Append(conversions, conversion)
       /\ run' = [run EXCEPT !.pc = "stored", !.payload = payload,
                             !.conversion_id = conversion.id]
       /\ UNCHANGED <<events, visitors, identity_map, attribution_models,
                      attribution_results, calc, form,
                      tracker, capture>>

\* serve, lines 134-158: parse the payload, store the conversion first.
\* conversions.visitor_id REFERENCES visitors(visitor_id) NOT NULL
StoreConversion ==
  /\ run.pc = "idle"
  /\ \E v \in Visitors, ts \in Times, val \in Values, h \in EmailHashes,
        dbOk \in BOOLEAN :
    LET payload == [visitor_id |-> v, timestamp |-> ts, value |-> val,
                    email_hash |-> h]
        conversion == [id |-> Len(conversions) + 1, visitor_id |-> v,
                       value |-> val, email_hash |-> h, timestamp |-> ts]
        conversionError == ~dbOk \/ v \notin visitors
    IN /\ IF conversionError
          THEN /\ run' = Respond(run,
                           [NoResponse EXCEPT !.status = 500,
                              !.error = "Failed to store conversion"])
               /\ UNCHANGED conversions
          ELSE /\ conversions' = Append(conversions, conversion)
               /\ run' = [run EXCEPT !.pc = "stored", !.payload = payload,
                                     !.conversion_id = conversion.id]
       /\ UNCHANGED <<events, visitors, identity_map, attribution_models,
                      attribution_results, calc, form,
                      tracker, capture>>

\* serve, lines 160-171: the active model, and the lookback date counted
\* back from the time of the request, new Date()
GetModelSettings ==
  /\ run.pc = "stored"
  /\ \E now \in Times :
    LET found == IsSingle(attribution_models)
        modelSettings == Single(attribution_models)
        modelName == IF found /\ modelSettings.name # ""
                     THEN modelSettings.name ELSE DefaultModelName
        lookbackDays ==
          IF found /\ modelSettings.settings.lookback_window_days # 0
          THEN modelSettings.settings.lookback_window_days
          ELSE DefaultLookbackDays
    IN /\ now >= run.payload.timestamp
       /\ run' = [run EXCEPT !.pc = "settings", !.modelName = modelName,
                    !.settings = IF found THEN modelSettings.settings
                                 ELSE DefaultSettings,
                    !.lookbackDate = now - lookbackDays]
       /\ UNCHANGED <<events, visitors, identity_map, attribution_models,
                      conversions, attribution_results, calc, form,
                      tracker, capture>>

GetVisitorIdsOwnOnly ==
  /\ run.pc = "settings"
  /\ run' = [run EXCEPT !.pc = "visitors",
               !.visitorIds = <<run.payload.visitor_id>>]
  /\ UNCHANGED <<events, visitors, identity_map, attribution_models,
                 conversions, attribution_results, calc, form,
                 tracker, capture>>

\* serve, lines 173-186: all visitor ids of this user
GetVisitorIds ==
  LET h == run.payload.email_hash
      mapped == IF h # "" /\ h \in DOMAIN identity_map
                THEN identity_map[h] ELSE <<>>
  IN /\ run.pc = "settings"
     /\ run' = [run EXCEPT !.pc = "visitors",
                  !.visitorIds = <<run.payload.visitor_id>> \o mapped]
     /\ UNCHANGED <<events, visitors, identity_map, attribution_models,
                    conversions, attribution_results, calc, form,
                    tracker, capture>>

TouchpointColumns == {"id", "timestamp", "utm_source", "click_ids"}

\* the rows the touchpoint query matches, lines 189-195
MatchingEvents(visitorIds, lookbackDate, timestamp) ==
  {e \in events : /\ e.visitor_id \in SeqRange(visitorIds)
                  /\ e.timestamp >= lookbackDate
                  /\ e.timestamp < timestamp}

\* serve, lines 188-196: get all touchpoints
GetTouchpoints ==
  /\ run.pc = "visitors"
  /\ \E rows \in OrderedByTimestamp(
       MatchingEvents(run.visitorIds, run.lookbackDate, run.payload.timestamp)) :
    /\ run' = [run EXCEPT !.pc = "touchpoints",
                 !.touchpoints =
                    [i \in 1..Len(rows) |-> Select(rows[i], TouchpointColumns)]]
    /\ UNCHANGED <<events, visitors, identity_map, attribution_models,
                   conversions, attribution_results, calc, form,
                   tracker, capture>>


\* payload.value || 0
ValueOrZero(value) == IF value = NoValue \/ value = 0 THEN ZERO ELSE <<value, 1>>

DirectRowNoSource(payload, conversion_id, modelName) ==
  [conversion_id |-> conversion_id,
   visitor_id |-> payload.visitor_id,
   attributed_event_id |-> NullId,
   attribution_model |-> modelName,
   attribution_weight |-> ONE,
   source |-> "",
   ad_id |-> "",
   timestamp |-> payload.timestamp,
   credit |-> ValueOrZero(payload.value)]

\* the row of the direct branch, lines 202-211; attributed_event_id is not
\* given and stays NULL
DirectRow(payload, conversion_id, modelName) ==
  [conversion_id |-> conversion_id,
   visitor_id |-> payload.visitor_id,
   attributed_event_id |-> NullId,
   attribution_model |-> modelName,
   attribution_weight |-> ONE,
   source |-> "direct",
   ad_id |-> "",
   timestamp |-> payload.timestamp,
   credit |-> ValueOrZero(payload.value)]

\* click_ids?.gclid || click_ids?.fbclid || click_ids?.ttclid ||
\* click_ids?.msclkid; "" is undefined
AdId(click_ids) ==
  IF click_ids.gclid # "" THEN click_ids.gclid
  ELSE IF click_ids.fbclid # "" THEN click_ids.fbclid
  ELSE IF click_ids.ttclid # "" THEN click_ids.ttclid
  ELSE click_ids.msclkid

\* formattedTouchpoints, lines 220-227
FormatTouchpoint(tp) ==
  [id |-> tp.id, timestamp |-> tp.timestamp,
   source |-> IF tp.utm_source # "" THEN tp.utm_source ELSE "direct",
   ad_id |-> AdId(tp.click_ids)]

ResultRowCreditIsWeight(tp, payload, conversion_id, modelName, weights) ==
  [conversion_id |-> conversion_id,
   visitor_id |-> Field(tp, "visitor_id"),
   attributed_event_id |-> tp.id,
   attribution_model |-> modelName,
   attribution_weight |-> WeightOf(weights, tp.id),
   source |-> IF tp.utm_source # "" THEN tp.utm_source ELSE "direct",
   ad_id |-> AdId(tp.click_ids),
   timestamp |-> payload.timestamp,
   credit |-> WeightOf(weights, tp.id)]

\* one element of attributionResults, lines 236-249
ResultRow(tp, payload, conversion_id, modelName, weights) ==
  [conversion_id |-> conversion_id,
   visitor_id |-> Field(tp, "visitor_id"),
   attributed_event_id |-> tp.id,
   attribution_model |-> modelName,
   attribution_weight |-> WeightOf(weights, tp.id),
   source |-> IF tp.utm_source # "" THEN tp.utm_source ELSE "direct",
   ad_id |-> AdId(tp.click_ids),
   timestamp |-> payload.timestamp,
   credit |-> RatMul(WeightOf(weights, tp.id), ValueOrZero(payload.value))]

\* attribution_results.visitor_id text REFERENCES visitors(visitor_id) NOT NULL:
\* the batch is stored whole or not at all
ResultsAccepted(rows) ==
  \A r \in rows : r.visitor_id # NullVisitor /\ r.visitor_id \in visitors

\* serve, lines 198-217: no touchpoints found, attribute to direct; the
\* result of the insert is not looked at.  dbOk: the store is reachable and
\* takes the write (kept in run.sinkUp for the properties)
AttributeDirect ==
  /\ run.pc = "touchpoints"
  /\ Len(run.touchpoints) = 0
  /\ \E dbOk \in BOOLEAN :
    LET row == DirectRow(run.payload, run.conversion_id, run.modelName) IN
    /\ attribution_results' =
         IF dbOk /\ ResultsAccepted({row})
         THEN attribution_results \cup {row} ELSE attribution_results
    /\ run' = Respond([run EXCEPT !.rows = {row}, !.sinkUp = dbOk],
                [NoResponse EXCEPT !.status = 200, !.success = TRUE,
                                   !.attribution = "direct"])
    /\ UNCHANGED <<events, visitors, identity_map, attribution_models,
                   conversions, calc, form, tracker, capture>>

\* serve, lines 219-272: calculate the weights, store one row per touchpoint
StoreAttributionResults ==
  /\ run.pc = "touchpoints"
  /\ Len(run.touchpoints) > 0
  /\ \E dbOk \in BOOLEAN :
    LET touchpoints == run.touchpoints
        formattedTouchpoints ==
          [i \in 1..Len(touchpoints) |-> FormatTouchpoint(touchpoints[i])]
        weights == calculateAttribution(formattedTouchpoints, run.modelName,
                                        run.settings)
        attributionResults ==
          {ResultRow(touchpoints[i], run.payload, run.conversion_id,
                     run.modelName, weights) : i \in 1..Len(touchpoints)}
        attributionError == ~(dbOk /\ ResultsAccepted(attributionResults))
    IN /\ attribution_results' =
            IF attributionError THEN attribution_results
            ELSE attribution_results \cup attributionResults
       /\ run' = Respond([run EXCEPT !.formattedTouchpoints = formattedTouchpoints,
                                     !.weights = weights,
                                     !.rows = attributionResults,
                                     !.sinkUp = dbOk],
                   IF attributionError
                   THEN [NoResponse EXCEPT !.status = 500,
                           !.error = "Failed to store attribution results"]
                   ELSE [NoResponse EXCEPT !.status = 200, !.success = TRUE,
                           !.conversion_id = run.conversion_id,
                           !.attribution_count = Cardinality(attributionResults),
                           !.total_credit = IF run.payload.value = NoValue
                                            THEN 0 ELSE run.payload.value,
                           !.model = run.modelName])
       /\ UNCHANGED <<events, visitors, identity_map, attribution_models,
                      conversions, calc, form, tracker, capture>>

\* --------------------------------------------------------- specification
Init ==
  /\ events = {}
  /\ visitors = {}
  /\ identity_map = [h \in {} |-> <<>>]
  /\ attribution_models \in {{}} \cup {{m} : m \in ModelRows}
  /\ conversions = <<>>
  /\ attribution_results = {}
  /\ run = IdleRun
  /\ calc = NoCalc
  /\ form = NoForm
  /\ tracker = NoTracker
  /\ capture = NoCapture

Next ==
  \/ CaptureEvent
  \/ StoreConversion
  \/ GetModelSettings
  \/ GetVisitorIds
  \/ GetTouchpoints
  \/ AttributeDirect
  \/ StoreAttributionResults

Spec == Init /\ [][Next]_vars

\* ------------------------------------------- the calculator on its own
CalcTimes == 0..MaxCalcTime

\* touchpoint rows as the query returns them: ids distinct (the position in
\* the answer), ordered by timestamp ascending
CalcTouchpoints ==
  UNION {{[i \in 1..n |-> [id |-> i, timestamp |-> s[i][1], utm_source |-> s[i][2],
                             click_ids |-> NoClickIds]] :
            s \in {t \in [1..n -> CalcTimes \X Sources] :
                     \A i, j \in 1..n : i < j => t[i][1] <= t[j][1]}}
         : n \in 0..MaxLen}

InitCalc ==
  /\ events = {}
  /\ visitors = {}
  /\ identity_map = [h \in {} |-> <<>>]
  /\ attribution_models = {}
  /\ conversions = <<>>
  /\ attribution_results = {}
  /\ run = IdleRun
  /\ form = NoForm
  /\ \E tps \in CalcTouchpoints, m \in ModelRows \cup PositionRows :
       calc = CalcCall(tps, m.name, m.settings)
  /\ tracker = NoTracker
  /\ capture = NoCapture

\* serve, lines 219-233: format the touchpoints, calculate the weights
Calculate ==
  LET formattedTouchpoints ==
        [i \in 1..Len(calc.touchpoints) |-> FormatTouchpoint(calc.touchpoints[i])]
  IN /\ calc.pc = "call"
     /\ calc' = [calc EXCEPT !.pc = "return",
                   !.formattedTouchpoints = formattedTouchpoints,
                   !.weights = calculateAttribution(formattedTouchpoints,
                                  calc.modelType, calc.settings)]
     /\ UNCHANGED <<events, visitors, identity_map, attribution_models,
                    conversions, attribution_results, run, form,
                    tracker, capture>>

NextCalc == Calculate

SpecCalc == InitCalc /\ [][NextCalc]_vars

\* the calculator's parameter type has timestamp: string; calls whose
\* touchpoints hold one string that is no date
UnparsedTouchpoints ==
  {[tps EXCEPT ![i].timestamp = InvalidDate] :
     <<tps, i>> \in {x \in CalcTouchpoints \X (1..MaxLen) : x[2] <= Len(x[1])}}

InitParse ==
  /\ events = {}
  /\ visitors = {}
  /\ identity_map = [h \in {} |-> <<>>]
  /\ attribution_models = {}
  /\ conversions = <<>>
  /\ attribution_results = {}
  /\ run = IdleRun
  /\ form = NoForm
  /\ \E tps \in UnparsedTouchpoints, m \in ModelRows :
       calc = CalcCall(tps, m.name, m.settings)
  /\ tracker = NoTracker
  /\ capture = NoCapture

SpecParse == InitParse /\ [][NextCalc]_vars

\* ------------------------------------------------------ the model form
\* what a number field of the form can hold; UNSET is an empty optional field
FormNumbers == {UNSET, <<1, 5>>, <<2, 5>>, <<1, 1>>, <<3, 2>>}
FormDecayBases == {UNSET, <<1, 20>>, <<1, 2>>}
FormLookbacks == {0, 30}

FormData ==
  {[name |-> n,
    settings |-> [lookback_window_days |-> l, decay_base |-> d,
                  first_touch_weight |-> f, last_touch_weight |-> t,
                  middle_touch_weight |-> m,
                  custom_weights |-> NoCustomWeights]] :
     n \in ModelNames, l \in FormLookbacks, d \in FormDecayBases,
     f \in FormNumbers, t \in FormNumbers, m \in FormNumbers}

\* z.number().min(lo).max(hi).optional()
OptionalInRange(r, lo, hi) == r = UNSET \/ (RatLeq(lo, r) /\ RatLeq(r, hi))

modelSettingsSchema(settings) ==
  /\ settings.lookback_window_days >= 1
  /\ settings.lookback_window_days <= 90
  /\ OptionalInRange(settings.decay_base, <<1, 10>>, ONE)
  /\ OptionalInRange(settings.first_touch_weight, ZERO, ONE)
  /\ OptionalInRange(settings.last_touch_weight, ZERO, ONE)
  /\ OptionalInRange(settings.middle_touch_weight, ZERO, ONE)

\* the resolver of the form: name is a member of AttributionModel
attributionModelSchema(data) ==
  /\ data.name \in KnownModels
  /\ modelSettingsSchema(data.settings)

\* modelData of onSubmit: the settings that do not apply to the selected
\* model are removed
modelData(data) ==
  [name |-> data.name,
   settings |->
     [data.settings EXCEPT
        !.decay_base = IF data.name # "time_decay" THEN UNSET ELSE @,
        !.first_touch_weight = IF data.name # "position_based" THEN UNSET ELSE @,
        !.last_touch_weight = IF data.name # "position_based" THEN UNSET ELSE @,
        !.middle_touch_weight = IF data.name # "position_based" THEN UNSET ELSE @]]

\* <form onSubmit={handleSubmit(onSubmit)}>: the resolver validates the
\* data, then onSubmit calls onSave (handleSaveModel inserts the row)
SubmitForm ==
  /\ form.pc = "editing"
  /\ IF ~attributionModelSchema(form.data)
     THEN /\ form' = [form EXCEPT !.pc = "errors"]
          /\ UNCHANGED attribution_models
     ELSE \E dbOk \in BOOLEAN :
            IF dbOk
            THEN /\ attribution_models' =
                      attribution_models \cup {modelData(form.data)}
                 /\ form' = [form EXCEPT !.pc = "saved"]
            ELSE /\ form' = [form EXCEPT !.pc = "saveError"]
                 /\ UNCHANGED attribution_models
  /\ UNCHANGED <<events, visitors, identity_map, conversions,
                 attribution_results, run, calc, tracker, capture>>

InitForm ==
  /\ events = {}
  /\ visitors = {}
  /\ identity_map = [h \in {} |-> <<>>]
  /\ attribution_models = {}
  /\ conversions = <<>>
  /\ attribution_results = {}
  /\ run = IdleRun
  /\ calc = NoCalc
  /\ \E data \in FormData : form = [pc |-> "editing", data |-> data]
  /\ tracker = NoTracker
  /\ capture = NoCapture

NextForm == SubmitForm

SpecForm == InitForm /\ [][NextForm]_vars

\* ------------------------------------- requests against a filled store
\* an event captured at day 0, as CaptureEvent stores it, with any
\* utm_source and any click identifiers
StoredEvent(v, src, clicks) ==
  [id |-> EventId(v, 0, src, IdentifiedAs(v)), visitor_id |-> v,
   event_type |-> "pageview", utm_source |-> src, click_ids |-> clicks,
   email_hash |-> IdentifiedAs(v), timestamp |-> 0]

StoredEvents ==
  {{}} \cup {{StoredEvent(v, src, clicks)} :
               v \in Visitors, src \in Sources, clicks \in ClickIds}

\* the tables after the events of `stored` were captured
InitStored ==
  /\ events \in StoredEvents
  /\ visitors = Visitors
  /\ identity_map =
       IF events = {} THEN [h \in {} |-> <<>>]
       ELSE update_identity_map([h \in {} |-> <<>>], Single(events)).map
  /\ attribution_models = {}
  /\ conversions = <<>>
  /\ attribution_results = {}
  /\ run = IdleRun
  /\ calc = NoCalc
  /\ form = NoForm
  /\ tracker = NoTracker
  /\ capture = NoCapture

\* serve, lines 134-158, for the same payload posted a second time
Reprocess ==
  /\ run.pc = "done"
  /\ run.request = 1
  /\ run.conversion_id # 0
  /\ \E dbOk \in BOOLEAN :
       LET payload == run.payload
           conversion == [id |-> Len(conversions) + 1,
                          visitor_id |-> payload.visitor_id,
                          value |-> payload.value,
                          email_hash |-> payload.email_hash,
                          timestamp |-> payload.timestamp]
           conversionError == ~dbOk \/ payload.visitor_id \notin visitors
       IN IF conversionError
          THEN /\ run' = Respond([IdleRun EXCEPT !.request = 2],
                           [NoResponse EXCEPT !.status = 500,
                              !.error = "Failed to store conversion"])
               /\ UNCHANGED conversions
          ELSE /\ conversions' = Append(conversions, conversion)
               /\ run' = [IdleRun EXCEPT !.pc = "stored", !.request = 2,
                                         !.payload = payload,
                                         !.conversion_id = conversion.id]
  /\ UNCHANGED <<events, visitors, identity_map, attribution_models,
                 attribution_results, calc, form, tracker, capture>>

NextStored ==
  \/ StoreConversion
  \/ GetModelSettings
  \/ GetVisitorIds
  \/ GetTouchpoints
  \/ AttributeDirect
  \/ StoreAttributionResults
  \/ Reprocess

SpecStored == InitStored /\ [][NextStored]_vars

\* ------------------------------------ the browser tracker and its endpoint
MaxOutbox == 2          \* requests sent and not yet taken up by the endpoint

\* the ids uuidv4() gives in this browser, and those of other browsers
BrowserVisitors == {"v1"}
OtherVisitors == Visitors \ BrowserVisitors

\* saveToStorage: localStorage.setItem, Cookies.set when that throws
saveToStorage(t, key, value) ==
  IF ~t.hasConsent THEN t ELSE [t EXCEPT !.storage[key] = value]

\* getFromStorage: localStorage.getItem, else Cookies.get, else null
getFromStorage(t, key) == t.storage[key]

checkConsent(t) ==
  LET consentValue == getFromStorage(t, CONSENT_KEY)
  IN [t EXCEPT !.hasConsent = (consentValue = "true" \/ consentValue # "false")]

\* uuid: the value uuidv4() gives when no id is stored
getOrCreateVisitorId(t, uuid) ==
  LET stored == getFromStorage(t, VISITOR_ID_KEY)
  IN IF stored # "" THEN [t EXCEPT !.visitorId = stored]
     ELSE [(IF t.hasConsent THEN saveToStorage(t, VISITOR_ID_KEY, uuid) ELSE t)
             EXCEPT !.visitorId = uuid]

\* src: utm_source of window.location.search, "" when it has none; the
\* pages of this model are reached with a utm_source and no click id
captureUrlParams(t, src) ==
  LET t1 == [t EXCEPT !.utmSource = src]
  IN IF t1.hasConsent /\ src # "" THEN saveToStorage(t1, UTM_KEY, src) ELSE t1

\* navigator.sendBeacon, or fetch: the request leaves the page
sendEvent(t, payload) == [t EXCEPT !.outbox = Append(@, payload)]

EventPayload(t, eventType, emailHash) ==
  [client_id |-> "c1", visitor_id |-> t.visitorId, event_type |-> eventType,
   email_hash |-> emailHash, utm_source |-> t.utmSource, path |-> ""]

trackEventNoConsentCheck(t, eventType, emailHash) ==
  sendEvent(t, EventPayload(t, eventType, emailHash))

trackEvent(t, eventType, emailHash) ==
  IF ~t.hasConsent THEN t
  ELSE sendEvent(t, EventPayload(t, eventType, emailHash))

trackPageView(t) == trackEvent(t, "page_view", "")

\* the event, then the conversion details to API_ENDPOINT/conversion
trackConversion(t) ==
  IF ~t.hasConsent THEN t
  ELSE LET payload == EventPayload(t, "conversion", "")
       IN sendEvent(sendEvent(t, payload),
                    [payload EXCEPT !.path = "/conversion"])

setConsent(t, hasConsent) ==
  LET t1 == [t EXCEPT !.hasConsent = hasConsent]
      t2 == saveToStorage(t1, CONSENT_KEY, IF hasConsent THEN "true" ELSE "false")
  IN IF hasConsent THEN saveToStorage(t2, VISITOR_ID_KEY, t2.visitorId) ELSE t2

\* the script runs on a page load: new AttributionTracker().  The storage
\* and the requests already sent outlive the page; a pending hash does not
LoadPage ==
  /\ Len(tracker.outbox) < MaxOutbox
  /\ \E uuid \in BrowserVisitors, src \in CapturedSources :
       LET t0 == NewTracker(tracker.storage, tracker.outbox)
           t1 == checkConsent(t0)
           t2 == getOrCreateVisitorId(t1, uuid)
           t3 == captureUrlParams(t2, src)
       IN tracker' = trackPageView(t3)
  /\ UNCHANGED <<events, visitors, identity_map, attribution_models,
                 conversions, attribution_results, run, calc, form, capture>>

\* the submit listener up to await this.hashEmail(...)
FormSubmitted ==
  /\ tracker.pc = "ready"
  /\ ~tracker.hashing
  /\ tracker' = [tracker EXCEPT !.hashing = TRUE]
  /\ UNCHANGED <<events, visitors, identity_map, attribution_models,
                 conversions, attribution_results, run, calc, form, capture>>

\* the submit listener after the await: trackEvent('form_submit', emailHash)
HashEmailResolved ==
  /\ tracker.pc = "ready"
  /\ tracker.hashing
  /\ Len(tracker.outbox) < MaxOutbox
  /\ \E emailHash \in EmailHashes \ {""} :
       tracker' = trackEvent([tracker EXCEPT !.hashing = FALSE],
                             "form_submit", emailHash)
  /\ UNCHANGED <<events, visitors, identity_map, attribution_models,
                 conversions, attribution_results, run, calc, form, capture>>

\* the click listener on a checkout button
CheckoutClicked ==
  /\ tracker.pc = "ready"
  /\ Len(tracker.outbox) < MaxOutbox
  /\ tracker' = trackEvent(tracker, "checkout_click", "")
  /\ UNCHANGED <<events, visitors, identity_map, attribution_models,
                 conversions, attribution_results, run, calc, form, capture>>

\* window.gTracker.trackConversion(...)
TrackConversion ==
  /\ tracker.pc = "ready"
  /\ Len(tracker.outbox) + 2 <= MaxOutbox
  /\ tracker' = trackConversion(tracker)
  /\ UNCHANGED <<events, visitors, identity_map, attribution_models,
                 conversions, attribution_results, run, calc, form, capture>>

\* window.gTracker.setConsent(...)
SetConsent ==
  /\ tracker.pc = "ready"
  /\ \E hasConsent \in BOOLEAN : tracker' = setConsent(tracker, hasConsent)
  /\ UNCHANGED <<events, visitors, identity_map, attribution_models,
                 conversions, attribution_results, run, calc, form, capture>>

\* requests that reach the endpoint from elsewhere: another browser's
\* form_submit, a request naming no known client
OtherPayloads ==
  {[NoEventPayload EXCEPT !.client_id = c, !.visitor_id = v,
                          !.event_type = "form_submit", !.email_hash = "h1"] :
     c \in ClientIds, v \in OtherVisitors}

Methods == {"POST", "GET", "OPTIONS"}

EndCapture(c, status, error) ==
  [c EXCEPT !.pc = "done", !.status = status, !.error = error]

\* serve, lines 343-365: the method, then the payload
Received(method, payload) ==
  LET c == NewCapture(method, payload)
  IN IF method = "OPTIONS" THEN EndCapture(c, 204, "")
     ELSE IF method # "POST" THEN EndCapture(c, 405, "Method not allowed")
     ELSE IF ~validatePayload(payload) THEN EndCapture(c, 400, "Invalid payload")
     ELSE [c EXCEPT !.pc = "validated"]

\* a request arrives: the next one the tracker sent, or one from elsewhere
ReceiveEvent ==
  /\ capture.pc \in {"idle", "done"}
  /\ Cardinality(events) < MaxEvents
  /\ \/ /\ tracker.outbox # <<>>
        /\ capture' = Received("POST", Head(tracker.outbox))
        /\ tracker' = [tracker EXCEPT !.outbox = Tail(@)]
     \/ /\ \E method \in Methods, payload \in OtherPayloads :
             capture' = Received(method,
                          IF method = "POST" THEN payload ELSE NoEventPayload)
        /\ UNCHANGED tracker
  /\ UNCHANGED <<events, visitors, identity_map, attribution_models,
                 conversions, attribution_results, run, calc, form>>

LookupClientUnchecked ==
  /\ capture.pc = "validated"
  /\ capture' = [capture EXCEPT !.pc = "client"]
  /\ UNCHANGED <<events, visitors, identity_map, attribution_models,
                 conversions, attribution_results, run, calc, form, tracker>>

\* serve, lines 367-379: validate client exists
LookupClient ==
  /\ capture.pc = "validated"
  /\ \E clientError \in BOOLEAN :
       LET client == capture.payload.client_id \in Clients
       IN capture' = IF clientError \/ ~client
                     THEN EndCapture(capture, 400, "Invalid client_id")
                     ELSE [capture EXCEPT !.pc = "client"]
  /\ UNCHANGED <<events, visitors, identity_map, attribution_models,
                 conversions, attribution_results, run, calc, form, tracker>>

\* serve, lines 381-398: ensure visitor exists
UpsertVisitor ==
  /\ capture.pc = "client"
  /\ \E visitorError \in BOOLEAN :
       IF visitorError
       THEN /\ capture' = EndCapture(capture, 500, "Failed to process visitor")
            /\ UNCHANGED visitors
       ELSE /\ visitors' = visitors \cup {capture.payload.visitor_id}
            /\ capture' = [capture EXCEPT !.pc = "visitor"]
  /\ UNCHANGED <<events, identity_map, attribution_models,
                 conversions, attribution_results, run, calc, form, tracker>>

\* serve, lines 400-434: create the event record and insert it; the trigger
\* runs with the insert.  dbOk: the store is reachable and takes the write.
\* payload.timestamp: the events of these requests are one day apart
InsertEvent ==
  /\ capture.pc = "visitor"
  /\ \E dbOk \in BOOLEAN :
       LET payload == capture.payload
           ts == Cardinality(events)
           eventRecord ==
             [id |-> EventId(payload.visitor_id, ts, payload.utm_source,
                             payload.email_hash),
              visitor_id |-> payload.visitor_id,
              event_type |-> payload.event_type,
              utm_source |-> payload.utm_source,
              click_ids |-> NoClickIds,
              email_hash |-> payload.email_hash,
              timestamp |-> ts]
           trigger == update_identity_map(identity_map, eventRecord)
           eventError == ~dbOk \/ trigger.error
       IN /\ eventRecord.id \notin {e.id : e \in events}
          /\ IF eventError
             THEN /\ capture' = EndCapture([capture EXCEPT !.dbOk = dbOk],
                                           500, "Failed to store event")
                  /\ UNCHANGED <<events, identity_map>>
             ELSE /\ events' = events \cup {eventRecord}
                  /\ identity_map' = trigger.map
                  /\ capture' = EndCapture([capture EXCEPT !.dbOk = dbOk],
                                           200, "")
  /\ UNCHANGED <<visitors, attribution_models, conversions,
                 attribution_results, run, calc, form, tracker>>

InitTracker ==
  /\ events = {}
  /\ visitors = {}
  /\ identity_map = [h \in {} |-> <<>>]
  /\ attribution_models = {}
  /\ conversions = <<>>
  /\ attribution_results = {}
  /\ run = IdleRun
  /\ calc = NoCalc
  /\ form = NoForm
  /\ tracker = NoTracker
  /\ capture = NoCapture

NextTracker ==
  \/ LoadPage
  \/ FormSubmitted
  \/ HashEmailResolved
  \/ CheckoutClicked
  \/ TrackConversion
  \/ SetConsent
  \/ ReceiveEvent
  \/ LookupClient
  \/ UpsertVisitor
  \/ InsertEvent

SpecTracker == InitTracker /\ [][NextTracker]_vars

\* ================================================================ claims
\* the calculator has returned for a sequence of n touchpoints
Returned(model) == calc.pc = "return" /\ calc.modelType = model

CalcLen == Len(calc.formattedTouchpoints)

\* weight of the i-th touchpoint of the call, 0 when the map has no entry
CalcWeight(i) ==
  IF calc.formattedTouchpoints[i].id \in DOMAIN calc.weights
  THEN calc.weights[calc.formattedTouchpoints[i].id] ELSE ZERO

\* C4: under position_based with N >= 3 touchpoints the first gets
\* first_touch_weight, the last gets last_touch_weight and each interior one
\* gets middle_touch_weight / (N - 2)
C4_PositionBasedWeights ==
  (Returned("position_based") /\ CalcLen >= 3) =>
    /\ RatEq(CalcWeight(1), calc.settings.first_touch_weight)
    /\ RatEq(CalcWeight(CalcLen), calc.settings.last_touch_weight)
    /\ \A i \in 2..(CalcLen - 1) :
         RatEq(CalcWeight(i),
               RatDiv(calc.settings.middle_touch_weight, <<CalcLen - 2, 1>>))

\* sum of custom_weights over the touchpoints whose source is in the mapping
MappedTotal ==
  RatSum([i \in 1..CalcLen |->
            IF calc.formattedTouchpoints[i].source \in DOMAIN calc.settings.custom_weights
            THEN calc.settings.custom_weights[calc.formattedTouchpoints[i].source]
            ELSE ZERO], CalcLen)

\* C5: under custom each touchpoint gets custom_weights[source] over the sum
\* of custom_weights of the mapped touchpoints, unmapped touchpoints get 0,
\* and only when no source is mapped the result is last_touch
C5_CustomWeights ==
  (Returned("custom") /\ CalcLen >= 1) =>
    IF \E i \in 1..CalcLen :
         calc.formattedTouchpoints[i].source \in DOMAIN calc.settings.custom_weights
    THEN \A i \in 1..CalcLen :
           IF calc.formattedTouchpoints[i].source \in DOMAIN calc.settings.custom_weights
           THEN RatEq(RatMul(CalcWeight(i), MappedTotal),
                      calc.settings.custom_weights[calc.formattedTouchpoints[i].source])
           ELSE RatEq(CalcWeight(i), ZERO)
    ELSE \A i \in 1..CalcLen :
           RatEq(CalcWeight(i), IF i = CalcLen THEN ONE ELSE ZERO)

\* days from touchpoint i to the last touchpoint of the call
DaysBefore(i) ==
  calc.formattedTouchpoints[CalcLen].timestamp - calc.formattedTouchpoints[i].timestamp

\* the decay base the claim names: the configured one, 0.7 when unset
ClaimedDecayBase ==
  IF calc.settings.decay_base = UNSET THEN <<7, 10>> ELSE calc.settings.decay_base

ClaimedRaw == [i \in 1..CalcLen |-> Pow(ClaimedDecayBase, DaysBefore(i))]

\* C6: under time_decay touchpoint i gets raw(i) / sum(raw) with
\* raw(i) = decay_base ^ days_before(i), decay_base 0.7 when unset; decay_base
\* 0.5 and days_before [2, 1, 0] give [1/7, 2/7, 4/7]
C6_TimeDecayWeights ==
  (Returned("time_decay") /\ CalcLen >= 1) =>
    /\ \A i \in 1..CalcLen :
         RatEq(RatMul(CalcWeight(i), RatSum(ClaimedRaw, CalcLen)), ClaimedRaw[i])
    /\ (/\ calc.settings.decay_base = <<1, 2>>
        /\ CalcLen = 3
        /\ DaysBefore(1) = 2
        /\ DaysBefore(2) = 1) =>
         /\ CalcWeight(1) = <<1, 7>>
         /\ CalcWeight(2) = <<2, 7>>
         /\ CalcWeight(3) = <<4, 7>>

C6_Witness ==
  /\ Returned("time_decay")
  /\ calc.settings.decay_base = <<1, 2>>
  /\ CalcLen = 3
  /\ DaysBefore(1) = 2
  /\ DaysBefore(2) = 1
  /\ calc.weights[calc.formattedTouchpoints[3].id] = <<4, 7>>

\* C7: under first_touch, for N >= 1, the first touchpoint has weight 1 and
\* no other touchpoint is in the weight map
C7_FirstTouchWeights ==
  (Returned("first_touch") /\ CalcLen >= 1) =>
    /\ DOMAIN calc.weights = {calc.formattedTouchpoints[1].id}
    /\ calc.weights[calc.formattedTouchpoints[1].id] = ONE

C7_Witness ==
  /\ Returned("first_touch")
  /\ CalcLen >= 3
  /\ calc.weights[calc.formattedTouchpoints[1].id] = ONE

\* C8: under last_touch, for N >= 1, the last touchpoint has weight 1 and no
\* other touchpoint is in the weight map
C8_LastTouchWeights ==
  (Returned("last_touch") /\ CalcLen >= 1) =>
    /\ DOMAIN calc.weights = {calc.formattedTouchpoints[CalcLen].id}
    /\ calc.weights[calc.formattedTouchpoints[CalcLen].id] = ONE

C8_Witness ==
  /\ Returned("last_touch")
  /\ CalcLen >= 3
  /\ calc.weights[calc.formattedTouchpoints[CalcLen].id] = ONE

\* C9: under linear, for N >= 1, each of the N touchpoints has weight 1/N
C9_LinearWeights ==
  (Returned("linear") /\ CalcLen >= 1) =>
    /\ DOMAIN calc.weights = Ids(calc.formattedTouchpoints)
    /\ \A i \in 1..CalcLen :
         RatEq(calc.weights[calc.formattedTouchpoints[i].id], <<1, CalcLen>>)

C9_Witness ==
  /\ Returned("linear")
  /\ CalcLen = 4
  /\ \A i \in 1..4 : calc.weights[calc.formattedTouchpoints[i].id] = <<1, 4>>

\* ------------------------------------------------------- the request
\* the request has ended after its conversion was stored and its touchpoint
\* query answered, with the result store reachable
RunEnded == run.pc = "done" /\ run.conversion_id # 0 /\ run.sinkUp

\* the result rows the store holds for the conversion of the request
PersistedRows ==
  {r \in attribution_results : r.conversion_id = run.conversion_id}

RECURSIVE SumOfWeights(_)
SumOfWeights(rows) ==
  IF rows = {} THEN ZERO
  ELSE LET r == CHOOSE x \in rows : TRUE
       IN RatAdd(r.attribution_weight, SumOfWeights(rows \ {r}))

RunWeights ==
  [i \in 1..Len(run.touchpoints) |-> WeightOf(run.weights, run.touchpoints[i].id)]

\* C1: for every model and every sequence of N >= 1 touchpoints the weights
\* calculateAttribution returns sum to 1, and so do the attribution_weight
\* values of the result rows persisted for the conversion
C1_WeightsSumToOne ==
  (RunEnded /\ Len(run.touchpoints) >= 1) =>
    /\ RatEq(RatSum(RunWeights, Len(run.touchpoints)), ONE)
    /\ RatEq(SumOfWeights(PersistedRows), ONE)

\* C2: when the touchpoint query returns no touchpoints, exactly one result
\* row is persisted for the conversion: weight 1, no attributed_event_id,
\* source "direct"
C2_DirectResult ==
  (RunEnded /\ Len(run.touchpoints) = 0) =>
    /\ Cardinality(PersistedRows) = 1
    /\ \A r \in PersistedRows :
         /\ r.attribution_weight = ONE
         /\ r.attributed_event_id = NullId
         /\ r.source = "direct"

C2_Witness ==
  /\ RunEnded
  /\ Len(run.touchpoints) = 0
  /\ \E e \in events : e.visitor_id = run.payload.visitor_id
  /\ \E r \in PersistedRows : r.source = "direct"

\* the lookback window the settings of the request configure, in days
ConfiguredLookbackDays ==
  IF run.settings.lookback_window_days # 0
  THEN run.settings.lookback_window_days ELSE 30

\* C3: the touchpoints of a conversion are exactly the events of the identity
\* set with timestamp in [conversion.timestamp - lookback_window_days,
\* conversion.timestamp)
C3_TouchpointWindow ==
  [][(run.pc = "visitors" /\ run'.pc = "touchpoints") =>
       {run'.touchpoints[i].id : i \in 1..Len(run'.touchpoints)} =
         {e.id : e \in
            {x \in events :
               /\ x.visitor_id \in SeqRange(run.visitorIds)
               /\ x.timestamp >= run.payload.timestamp - ConfiguredLookbackDays
               /\ x.timestamp < run.payload.timestamp}}]_vars

\* C10: when the configured model name is not a known model, the weights are
\* those of last_touch and the run records that it fell back: the model
\* information persisted or returned names the configured model
C10_UnknownModelFallback ==
  (RunEnded /\ Len(run.touchpoints) >= 1 /\ run.modelName \notin KnownModels) =>
    /\ \A i \in 1..Len(run.touchpoints) :
         RatEq(RunWeights[i], IF i = Len(run.touchpoints) THEN ONE ELSE ZERO)
    /\ \/ \E r \in PersistedRows : r.attribution_model = run.modelName
       \/ run.response.model = run.modelName

\* the request has ended; its writes are the conversion row and run.rows
RunDone == run.pc = "done"

\* an insert of the request failed: the conversion row, or the result rows
\* it handed to the store
InsertFailed ==
  \/ run.conversion_id = 0
  \/ ~(run.rows \subseteq attribution_results)

\* C11: when the conversion insert fails, or the insert of the result rows
\* fails in the touchpoint branch or in the direct branch, the response is
\* an error and never {success: true}
C11_FailureSurfaces ==
  (RunDone /\ InsertFailed) =>
    /\ ~run.response.success
    /\ run.response.status # 200
    /\ run.response.error # ""

\* the touchpoints of the request whose calculated weight is not zero
WeightedTouchpointIds ==
  {run.touchpoints[i].id : i \in {j \in 1..Len(run.touchpoints) : Truthy(RunWeights[j])}}

\* C12: the result rows of a request are those of its touchpoints of nonzero
\* weight, exactly one each; a touchpoint of weight zero has no result row
C12_NoZeroWeightRows ==
  (RunDone /\ Len(run.touchpoints) >= 1) =>
    /\ \A r \in run.rows : Truthy(r.attribution_weight)
    /\ {r.attributed_event_id : r \in run.rows} = WeightedTouchpointIds
    /\ Cardinality(run.rows) = Cardinality(WeightedTouchpointIds)

\* the conversion value of the request as the claims count it: 0 if absent
ClaimedValue ==
  IF run.payload.value = NoValue THEN ZERO ELSE <<run.payload.value, 1>>

\* C13: the credit of every result row is its attribution_weight times the
\* conversion value, 0 when the value is absent; the direct row's credit is
\* the whole value; weight 0.3 and value 100 give credit 30
C13_CreditIsWeightTimesValue ==
  /\ (RunDone /\ run.conversion_id # 0) =>
       /\ \A r \in run.rows \cup PersistedRows :
            /\ RatEq(r.credit, RatMul(r.attribution_weight, ClaimedValue))
            /\ run.payload.value = NoValue => RatEq(r.credit, ZERO)
       /\ Len(run.touchpoints) = 0 =>
            \A r \in run.rows \cup PersistedRows : RatEq(r.credit, ClaimedValue)
  /\ ResultRow([id |-> 1, timestamp |-> 0, utm_source |-> "google",
                click_ids |-> NoClickIds],
               [NoPayload EXCEPT !.value = 100], 1, "time_decay",
               [id \in {1} |-> <<3, 10>>]).credit = <<30, 1>>

C13_Witness ==
  /\ RunDone
  /\ run.payload.value = 100
  /\ Cardinality(run.rows) = 2
  /\ \A r \in run.rows : r.credit = <<50, 1>>

\* an optional weight as the sum counts it: 0 when unset
WeightOrZero(r) == IF Truthy(r) THEN r ELSE ZERO

\* first_touch_weight + last_touch_weight + middle_touch_weight differs
\* from 1 by more than 0.001
WeightSumOff(settings) ==
  LET sum == RatAdd(RatAdd(WeightOrZero(settings.first_touch_weight),
                           WeightOrZero(settings.last_touch_weight)),
                    WeightOrZero(settings.middle_touch_weight))
      diff == RatAdd(sum, <<-1, 1>>)
  IN ~RatLeq(<<Abs(diff[1]), diff[2]>>, <<1, 1000>>)

\* C14: position_based settings whose three weights do not sum to 1 (within
\* 0.001) are rejected when the form is submitted: onSave is not called and
\* no such row is saved for the calculator
C14_WeightSumValidated ==
  /\ (form.pc = "saved" /\ form.data.name = "position_based") =>
       ~WeightSumOff(form.data.settings)
  /\ \A m \in attribution_models :
       m.name = "position_based" => ~WeightSumOff(m.settings)

\* the click identifiers in the order the claim gives them
ClickIdOrder == <<"gclid", "fbclid", "ttclid", "msclkid">>

\* the first non-empty click identifier in that order, "" when none
ClaimedAdId(click_ids) ==
  IF \E i \in 1..4 : click_ids[ClickIdOrder[i]] # ""
  THEN click_ids[ClickIdOrder[CHOOSE i \in 1..4 :
                   /\ click_ids[ClickIdOrder[i]] # ""
                   /\ \A j \in 1..(i - 1) : click_ids[ClickIdOrder[j]] = ""]]
  ELSE ""

\* the stored event a touchpoint of the request was read from
EventOf(tp) == CHOOSE e \in events : e.id = tp.id

\* every normalized touchpoint of the request has the source and ad_id the
\* claim gives, and a row with the same source and ad_id among `rows`
NormalizedInto(rows) ==
  \A i \in 1..Len(run.touchpoints) :
    LET e == EventOf(run.touchpoints[i])
        ft == run.formattedTouchpoints[i]
    IN /\ ft.source = (IF e.utm_source # "" THEN e.utm_source ELSE "direct")
       /\ ft.ad_id = ClaimedAdId(e.click_ids)
       /\ \E r \in rows : /\ r.attributed_event_id = e.id
                          /\ r.source = ft.source
                          /\ r.ad_id = ft.ad_id

\* the rows the request built carry the normalized source and ad_id
RowsBuiltNormalized ==
  (RunEnded /\ Len(run.touchpoints) >= 1) => NormalizedInto(run.rows)

\* C15: the normalized touchpoint's source is utm_source, "direct" when
\* absent; its ad_id is the first non-empty of gclid, fbclid, ttclid,
\* msclkid; the persisted result row carries the same source and ad_id
C15_NormalizedAndPersisted ==
  (RunEnded /\ Len(run.touchpoints) >= 1) => NormalizedInto(PersistedRows)

\* C16: the conversion row is persisted before any attribution step: a
\* result row is written only by a request whose conversion row is stored,
\* and a request whose conversion insert fails stops with an error, having
\* written no result row
C16_ConversionStoredFirst ==
  [][/\ attribution_results' # attribution_results =>
          /\ run.conversion_id \in 1..Len(conversions)
          /\ \A r \in attribution_results' \ attribution_results :
               r.conversion_id = run.conversion_id
     /\ run'.pc \in {"stored", "settings", "visitors", "touchpoints"} =>
          run'.conversion_id \in 1..Len(conversions')
     /\ (run.pc = "idle" /\ run'.pc = "done") =>
          /\ conversions' = conversions
          /\ attribution_results' = attribution_results
          /\ run'.rows = {}
          /\ run'.response.status = 500
          /\ ~run'.response.success]_vars

C16_Witness ==
  /\ RunDone
  /\ run.conversion_id \in 1..Len(conversions)
  /\ \E r \in attribution_results : r.conversion_id = run.conversion_id

\* the visitor ids the claim gives for the request: its own visitor_id and,
\* when it carries an email_hash the identity map knows, the ids mapped to it
ClaimedIdentitySet ==
  {run.payload.visitor_id} \cup
    (IF run.payload.email_hash # "" /\ run.payload.email_hash \in DOMAIN identity_map
     THEN SeqRange(identity_map[run.payload.email_hash]) ELSE {})

\* C17: touchpoints are gathered for the conversion's visitor_id together
\* with every visitor id the identity map holds for its email_hash; without
\* an email_hash, or with no mapping, for its own visitor_id only
C17_IdentitySet ==
  [][/\ (run.pc = "settings" /\ run'.pc = "visitors") =>
          SeqRange(run'.visitorIds) = ClaimedIdentitySet
     /\ (run.pc = "visitors" /\ run'.pc = "touchpoints") =>
          {run'.touchpoints[i].id : i \in 1..Len(run'.touchpoints)} =
            {e.id : e \in
               {x \in events : /\ x.visitor_id \in SeqRange(run.visitorIds)
                               /\ x.timestamp >= run.lookbackDate
                               /\ x.timestamp < run.payload.timestamp}}]_vars

C17_Witness ==
  /\ run.pc = "touchpoints"
  /\ run.payload.visitor_id = "v1"
  /\ run.payload.email_hash = "h1"
  /\ \E i \in 1..Len(run.touchpoints) :
       EventOf(run.touchpoints[i]).visitor_id = "v2"

\* the result rows the store holds for conversion c
RowsOf(results, c) == {r \in results : r.conversion_id = c}

\* the result rows a request with these touchpoints is to leave: the direct
\* row when there are none, else one row per touchpoint
FullSet(rows, touchpoints) ==
  IF Len(touchpoints) = 0
  THEN Cardinality(rows) = 1 /\ \A r \in rows : r.source = "direct"
  ELSE /\ Cardinality(rows) = Len(touchpoints)
       /\ {r.attributed_event_id : r \in rows} =
            {touchpoints[i].id : i \in 1..Len(touchpoints)}

\* C18: result rows are only appended: processing the same payload a second
\* time leaves every stored result row as it is and adds a second conversion
\* row with its own full set of result rows
C18_AppendOnlyDuplicates ==
  [][/\ attribution_results \subseteq attribution_results'
     /\ (/\ run'.pc = "done"
         /\ run'.request = 2
         /\ run'.conversion_id # 0
         /\ run'.sinkUp) =>
          /\ Len(conversions') = 2
          /\ run'.conversion_id = 2
          /\ FullSet(RowsOf(attribution_results', 2), run'.touchpoints)]_vars

ReadIds == {run.touchpoints[i].id : i \in 1..Len(run.touchpoints)}

\* events the touchpoint query of the request would match now and did not
\* return: they were inserted after the request read its touchpoints
InsertedAfterRead ==
  {e \in events : /\ e.visitor_id \in SeqRange(run.visitorIds)
                  /\ e.timestamp >= run.lookbackDate
                  /\ e.timestamp < run.payload.timestamp
                  /\ e.id \notin ReadIds}

\* the rows cover exactly the touchpoints read and their weights sum to 1
CoversRead(rows) ==
  /\ {r.attributed_event_id : r \in rows} = ReadIds
  /\ RatEq(SumOfWeights(rows), ONE)

\* C19: a touchpoint inserted by a concurrent event capture after the
\* request read its touchpoints is not in the request's results: its result
\* rows cover exactly the touchpoints read, and their weights sum to 1
C19_LateTouchpointIgnored ==
  (RunEnded /\ Len(run.touchpoints) >= 1 /\ InsertedAfterRead # {}) =>
    CoversRead(PersistedRows)

\* C20: under position_based with exactly one touchpoint, that touchpoint
\* has weight 1 whatever first, last and middle weights are configured
C20_PositionBasedSingle ==
  (Returned("position_based") /\ CalcLen = 1) =>
    /\ DOMAIN calc.weights = {calc.formattedTouchpoints[1].id}
    /\ calc.weights[calc.formattedTouchpoints[1].id] = ONE

C20_Witness ==
  /\ Returned("position_based")
  /\ CalcLen = 1
  /\ calc.settings.first_touch_weight = <<1, 5>>
  /\ calc.settings.last_touch_weight = <<3, 5>>
  /\ calc.weights[calc.formattedTouchpoints[1].id] = ONE

\* ------------------------------------------- time_decay, further properties
\* every touchpoint of the call has the timestamp of the last one
AllAtLastTimestamp == \A i \in 1..CalcLen : DaysBefore(i) = 0

\* C21: under time_decay, when all touchpoints have the timestamp of the last
\* one, every raw weight is 1 and the result is the linear model's result,
\* 1/N each, for every decay_base
C21_TimeDecayDegeneratesToLinear ==
  (Returned("time_decay") /\ CalcLen >= 1 /\ AllAtLastTimestamp) =>
    /\ \A i \in 1..CalcLen : ClaimedRaw[i] = ONE
    /\ calc.weights = Linear(calc.formattedTouchpoints)
    /\ \A i \in 1..CalcLen : RatEq(CalcWeight(i), <<1, CalcLen>>)

C21_Witness ==
  /\ Returned("time_decay")
  /\ calc.settings.decay_base = <<1, 2>>
  /\ CalcLen = 3
  /\ AllAtLastTimestamp
  /\ calc.formattedTouchpoints[1].timestamp > 0
  /\ \A i \in 1..3 : CalcWeight(i) = <<1, 3>>

\* the effective decay base lies in (0, 1]
DecayBaseInUnitInterval ==
  /\ ClaimedDecayBase[1] > 0
  /\ RatLeq(ClaimedDecayBase, ONE)

\* C30: under time_decay with decay_base in (0, 1] and touchpoints ascending
\* by timestamp, a later touchpoint never has less weight than an earlier one
\* and the last touchpoint's weight is the maximum
C30_TimeDecayMonotone ==
  (Returned("time_decay") /\ CalcLen >= 1 /\ DecayBaseInUnitInterval) =>
    /\ \A i, j \in 1..CalcLen : i <= j => RatLeq(CalcWeight(i), CalcWeight(j))
    /\ \A i \in 1..CalcLen : RatLeq(CalcWeight(i), CalcWeight(CalcLen))

C30_Witness ==
  /\ Returned("time_decay")
  /\ calc.settings.decay_base = <<1, 2>>
  /\ CalcLen = 4
  /\ DaysBefore(1) = 3
  /\ DaysBefore(2) = 1
  /\ DaysBefore(3) = 1
  /\ CalcWeight(1) # CalcWeight(2)
  /\ CalcWeight(2) = CalcWeight(3)
  /\ RatLeq(CalcWeight(3), CalcWeight(4))
  /\ ~RatLeq(CalcWeight(4), CalcWeight(3))

\* --------------------------------------------- rows handed to the sink
\* the request went through the touchpoint branch and has ended
TouchpointBranchEnded == run.pc = "done" /\ Len(run.touchpoints) > 0

\* C23: in the touchpoint branch every result row handed to the result sink
\* has a defined visitor_id, the visitor of the attributed event, so a
\* reachable sink never rejects the batch for a missing visitor_id
C23_RowsHaveVisitor ==
  TouchpointBranchEnded =>
    /\ \A r \in run.rows :
         /\ r.visitor_id # NullVisitor
         /\ \E e \in events : e.id = r.attributed_event_id
                               /\ e.visitor_id = r.visitor_id
    /\ run.sinkUp => run.response.status = 200

\* ---------------------------------------------------- credit conservation
RECURSIVE SumOfCredits(_)
SumOfCredits(rows) ==
  IF rows = {} THEN ZERO
  ELSE LET r == CHOOSE x \in rows : TRUE
       IN RatAdd(r.credit, SumOfCredits(rows \ {r}))

\* the request answered {success: true}
Succeeded == run.pc = "done" /\ run.response.success

\* C24: for every successfully processed conversion the credits of its result
\* rows sum to the conversion value, 0 when the value is absent, for every
\* model and every touchpoint count, 0 included, and the response reports
\* that sum as total_credit
C24_CreditsSumToValue ==
  Succeeded =>
    /\ RatEq(SumOfCredits(PersistedRows), ClaimedValue)
    /\ <<run.response.total_credit, 1>> = SumOfCredits(PersistedRows)

\* ------------------------------------------------- unparsable timestamps
HasUnparsedTimestamp ==
  \E i \in 1..Len(calc.touchpoints) : calc.touchpoints[i].timestamp = InvalidDate

\* C22: the calculator never returns a weight that is not a number: a call
\* with a touchpoint whose timestamp cannot be parsed does not return
\* weights, under every model
C22_NoNaNWeights ==
  calc.pc = "return" =>
    /\ \A id \in DOMAIN calc.weights : calc.weights[id] # NaN
    /\ ~HasUnparsedTimestamp

\* ------------------------------------------ the tracker and its endpoint
\* the request the endpoint took up last came from the tracker of the page
FromTracker ==
  /\ capture.method = "POST"
  /\ capture.payload.visitor_id \in BrowserVisitors

\* C25: every event the tracker emits carries an event_type validatePayload
\* accepts, so a tracked page view of a known client is not answered
\* "Invalid payload" and ends up as a stored event
C25_TrackedEventsAccepted ==
  /\ \A i \in 1..Len(tracker.outbox) : validatePayload(tracker.outbox[i])
  /\ (capture.pc = "done" /\ FromTracker) => capture.error # "Invalid payload"

\* C26: setConsent(false) is durable: when the tracker loses consent the
\* stored consent value is 'false', so that the next page load starts
\* without consent
C26_RevocationDurable ==
  [][(tracker.pc = "ready" /\ tracker.hasConsent /\ ~tracker'.hasConsent) =>
       tracker'.storage[CONSENT_KEY] = "false"]_vars

\* C27: a step that ends with hasConsent false sends no event and no
\* conversion and writes nothing to the storage
C27_NoConsentNoEffect ==
  [][(tracker'.pc = "ready" /\ ~tracker'.hasConsent) =>
       /\ Len(tracker'.outbox) <= Len(tracker.outbox)
       /\ tracker'.storage = tracker.storage]_vars

C27_Witness ==
  /\ tracker.pc = "ready"
  /\ ~tracker.hasConsent
  /\ tracker.storage[CONSENT_KEY] = "true"
  /\ tracker.hashing
  /\ tracker.outbox = <<>>
  /\ capture.pc = "done"
  /\ FromTracker
  /\ Cardinality(events) = 0

NoDuplicates(seq) == \A i, j \in 1..Len(seq) : seq[i] = seq[j] => i = j

\* every list of the map is duplicate-free and holds the visitor of every
\* event that carries its hash
IdentityMapSound(map, evs) ==
  /\ \A h \in DOMAIN map : NoDuplicates(map[h])
  /\ \A e \in evs :
       e.email_hash # "" =>
         /\ e.email_hash \in DOMAIN map
         /\ e.visitor_id \in SeqRange(map[e.email_hash])

Mapped(v, h) == h \in DOMAIN identity_map /\ v \in SeqRange(identity_map[h])

\* C28: after every event insert each visitor_ids list is duplicate-free and
\* holds every visitor that inserted an event with the hash; the insert of
\* an event of an already-mapped visitor leaves the map as it is and, the
\* store taking the write, succeeds
C28_IdentityMapMaintained ==
  [][/\ IdentityMapSound(identity_map', events')
     /\ (/\ capture.pc = "visitor"
         /\ capture'.pc = "done"
         /\ Mapped(capture.payload.visitor_id, capture.payload.email_hash)) =>
          /\ identity_map' = identity_map
          /\ capture'.dbOk => (capture'.status = 200 /\ events' # events)]_vars

C28_Witness ==
  /\ Cardinality(events) = 2
  /\ \A e \in events : e.visitor_id = "v2" /\ e.email_hash = "h1"
  /\ identity_map["h1"] = <<"v2">>
  /\ capture.pc = "done"
  /\ capture.status = 200

====
